---- MODULE Spec2Model ----
(***************************************************************************)
(* Model of the iot-authentication cloud functions: requestNewToken,       *)
(* signSerialNumber, addGarden and removeGarden, over the device registry  *)
(* (the realtime database under garden/<serial>) and the identity          *)
(* provider's custom claims.  Every handler is cut at its awaits: one      *)
(* action per stretch of code that runs between two accesses to the        *)
(* database, the identity provider or the clock.                           *)
(*                                                                         *)
(* Strings that the code inspects character by character (serials,         *)
(* nicknames) are sequences of character codes.  An optional value (a      *)
(* query parameter, a database child, a custom claim) is the empty         *)
(* sequence when absent and a one-element sequence when present.           *)
(*                                                                         *)
(* The database answers every call.  The identity provider verifies or    *)
(* rejects the ID token presented; its setCustomUserClaims answers every   *)
(* call except in SpecGardenFaulty, where addGarden's call may be rejected *)
(* and the catch block answers invalid_token.  The variable hist and the   *)
(* request fields pre, h0 and at record history for the properties; no     *)
(* action reads them.                                                      *)
(***************************************************************************)
EXTENDS Integers, Sequences, FiniteSets, TLC

VARIABLES
    rev,      \* revision of the functions running: "r50" (functions/src/index.ts) or "r45"
    now,      \* the wall clock, in seconds: what timestamp() returns
    ticks,    \* how many times the clock has been advanced
    garden,   \* the registry: serial -> the children of garden/<serial>
    claims,   \* identity provider: account -> custom claim claimedGardens
    idTok,    \* account -> claimedGardens carried by the ID token the account holds
    req,      \* request slot -> the request in progress in it, its locals, its response
    hist      \* history: serial -> the last token createCustomToken made for it, and when

vars == <<rev, now, ticks, garden, claims, idTok, req, hist>>

-----------------------------------------------------------------------------
(* Bounds of the model *)

\* how many times the clock advances in a behaviour
MaxTicks == 3
\* longest claimedGardens list an account's refreshed ID token carries
MaxList == 1

(* Constants of the program *)

\* '0', '9', 'a', 'z' of the serial check
Char0 == 48
Char9 == 57
CharA == 97
CharZ == 122
MinSerialLen == 2
MaxSerialLen == 24
MaxGardens == 10
\* 60 * 5: the sync window of addGarden's offline warning
SyncWindow == 60 * 5

SIGNING_KEY == "signing-key"
PASSWORD == "password"

\* 45 * 60 of the later revision, 50 * 60 of functions/src/index.ts
Threshold45 == 45 * 60
Threshold50 == 50 * 60
RefreshThreshold(rv) == IF rv = "r50" THEN Threshold50 ELSE Threshold45

-----------------------------------------------------------------------------
(* Optional values *)

None == <<>>
Some(v) == <<v>>
Has(o) == o # <<>>
Val(o) == o[1]

\* a query parameter that is absent or the empty string is falsy (Falsy for
\* a parameter held as character codes, FalsyText for one held as a string)
Falsy(p) == ~Has(p) \/ Val(p) = <<>>
FalsyText(p) == ~Has(p) \/ Val(p) = ""

(* String helpers *)

WhiteSpace == {9, 10, 11, 12, 13, 32}

RECURSIVE TrimStart(_)
TrimStart(s) ==
    IF s # <<>> /\ Head(s) \in WhiteSpace THEN TrimStart(Tail(s)) ELSE s

RECURSIVE TrimEnd(_)
TrimEnd(s) ==
    IF s # <<>> /\ s[Len(s)] \in WhiteSpace
    THEN TrimEnd(SubSeq(s, 1, Len(s) - 1))
    ELSE s

\* String.prototype.trim
Trim(s) == TrimEnd(TrimStart(s))

\* [...claimedGardens].filter(g => g === serial)
RECURSIVE FilterEq(_, _)
FilterEq(list, serial) ==
    IF list = <<>> THEN <<>>
    ELSE IF Head(list) = serial
         THEN <<Head(list)>> \o FilterEq(Tail(list), serial)
         ELSE FilterEq(Tail(list), serial)

\* the serial check of requestNewToken: every character in 0-9 or a-z, length 2..24
SerialCharOk(c) == (c >= Char0 /\ c <= Char9) \/ (c >= CharA /\ c <= CharZ)
SerialOkLong(serial) ==
    ~ ( ~(\A i \in 1..Len(serial) : SerialCharOk(serial[i]))
        \/ Len(serial) < MinSerialLen
        \/ Len(serial) > MaxSerialLen + 1 )
SerialOk(serial) ==
    ~ ( ~(\A i \in 1..Len(serial) : SerialCharOk(serial[i]))
        \/ Len(serial) < MinSerialLen
        \/ Len(serial) > MaxSerialLen )

-----------------------------------------------------------------------------
(* Key derivation.  The digest is an uninterpreted term over the HMAC key  *)
(* and the (empty) message: two digests are equal exactly when their       *)
(* inputs are.                                                             *)

JsonStringify(serial, signingKey) ==
    [serial |-> serial, signingKey |-> signingKey]
HmacSha256Hex(key, message) == [hmacKey |-> key, message |-> message]
GetUniqueKeyWith(serial, signingKey) ==
    HmacSha256Hex(JsonStringify(serial, signingKey), <<>>)
getUniqueKey(serial) == GetUniqueKeyWith(serial, SIGNING_KEY)

(* Identity provider *)

\* createCustomToken(`garden_${serial}`, {iotDevice: true}): the signed
\* payload carries the subject, the claims and the time of issue
CreateCustomTokenNoSerial(serial, t) ==
    [sub |-> <<"garden_", <<>>>>, iotDevice |-> TRUE, iat |-> t]
CreateCustomToken(serial, t) ==
    [sub |-> <<"garden_", serial>>, iotDevice |-> TRUE, iat |-> t]

\* the ID token an account presents: its uid and the claimedGardens claim
\* the token was minted with (absent until the first setCustomUserClaims)
IdToken(uid, claimedGardens) ==
    [valid |-> TRUE, uid |-> uid, claimedGardens |-> claimedGardens]
InvalidToken == [valid |-> FALSE, uid |-> "", claimedGardens |-> None]

\* await auth.verifyIdToken(token) does not throw
VerifiesAnything(idToken) == TRUE
Verifies(idToken) == idToken.valid

-----------------------------------------------------------------------------
(* The registry *)

NoRecord ==
    [claimed_by |-> None, nickname |-> None, last_token |-> None,
     last_token_time |-> None, last_sync_time |-> None]

\* snapshot.exists(): a node exists when it has a child
Exists(g) == g # NoRecord

Lookup(g, serial) == IF serial \in DOMAIN g THEN g[serial] ELSE NoRecord

\* db.ref(`garden/${serial}/${child}`).set(value) and .remove(): a node
\* left without children no longer exists
Put(g, serial, rec) ==
    IF rec = NoRecord
    THEN [x \in DOMAIN g \ {serial} |-> g[x]]
    ELSE [x \in DOMAIN g \cup {serial} |-> IF x = serial THEN rec ELSE g[x]]

-----------------------------------------------------------------------------
(* Requests *)

ConcSlots == {1, 2}
SeqSlots == {1}

Resp(status, code) ==
    [status |-> status, code |-> code, token |-> None, left |-> None,
     kind |-> "", key |-> None]

NoResp == Resp(0, "")

\* the body of a token response: the token alone in functions/src/index.ts,
\* `${token}:${tokenTimeLeft}:cached|new` in the later revision
TokenResp(rv, token, left, kind) ==
    IF rv = "r50"
    THEN [Resp(200, "token") EXCEPT !.token = Some(token)]
    ELSE [Resp(200, "token") EXCEPT !.token = Some(token), !.left = Some(left),
                                    !.kind = kind]

KeyResp(key) == [Resp(200, "key") EXCEPT !.key = Some(key)]

IdleReq ==
    [pc |-> "idle", op |-> "", serial |-> None, key |-> None,
     password |-> None, token |-> InvalidToken, nickname |-> None,
     snap |-> NoRecord, uid |-> "", claimedGardens |-> None, i |-> 0,
     generatedTime |-> None, newToken |-> None, warn |-> FALSE,
     resp |-> NoResp,
     \* history, for the properties: the registry and the claims when the
     \* request started, and the last issue known when the clock was read
     pre |-> [garden |-> <<>>, claims |-> <<>>], h0 |-> None, at |-> None]

Free(r) == req[r].pc \in {"idle", "done"}

\* at most `par` requests are in progress once this one has started
MayStart(r, par) ==
    /\ Free(r)
    /\ Cardinality({q \in ConcSlots : ~Free(q)}) < par

NewReq(op) ==
    [IdleReq EXCEPT !.op = op, !.pre = [garden |-> garden, claims |-> claims]]

Done(rq, resp) == [rq EXCEPT !.pc = "done", !.resp = resp]

\* the last issue for a serial, if any
LastIssue(serial) == IF serial \in DOMAIN hist THEN hist[serial] ELSE None
Issued(serial, token, t) ==
    [x \in DOMAIN hist \cup {serial} |->
        IF x = serial THEN Some([tok |-> token, at |-> t]) ELSE hist[x]]

-----------------------------------------------------------------------------
(* requestNewToken *)

\* the cache test: `timestamp() - last_token_time < 50 * 60` in
\* functions/src/index.ts, `Math.floor(last_token_time + 45 * 60 -
\* timestamp()) > 0` in the later revision
TokenTimeLeft(rv, lastTokenTime, t) == lastTokenTime + RefreshThreshold(rv) - t
CacheFreshInclusive(rv, lastTokenTime, t) ==
    IF rv = "r50"
    THEN t - lastTokenTime <= Threshold50
    ELSE TokenTimeLeft(rv, lastTokenTime, t) >= 0
CacheFresh(rv, lastTokenTime, t) ==
    IF rv = "r50"
    THEN t - lastTokenTime < Threshold50
    ELSE TokenTimeLeft(rv, lastTokenTime, t) > 0

\* `request.query.key !== expectedKey` is false
KeyLooseMatch(key, serial) == key.hmacKey.serial = serial
KeyOfOtherSecret(key, serial) == ~(key # GetUniqueKeyWith(serial, PASSWORD))
KeyAccepted(key, serial) == ~(key # getUniqueKey(serial))

\* the parameter checks, the key check and the read of garden/<serial>
RntStart(r, par, serial, key) ==
    /\ MayStart(r, par)
    /\ LET rq == [NewReq("requestNewToken") EXCEPT !.serial = serial, !.key = key]
       IN req' = [req EXCEPT ![r] =
            IF Falsy(serial) \/ ~Has(key)
            THEN Done(rq, Resp(400, "missing_parameter"))
            ELSE IF ~SerialOk(Val(serial))
            THEN Done(rq, Resp(400, "invalid_serial"))
            ELSE IF ~KeyAccepted(Val(key), Val(serial))
            THEN Done(rq, Resp(401, "wrong_key"))
            ELSE [rq EXCEPT !.pc = "rnt_got",
                            !.snap = Lookup(garden, Val(serial))]]
    /\ UNCHANGED <<rev, now, ticks, garden, claims, idTok, hist>>

\* the cached token while it is fresh, a new custom token otherwise
RntDecide(r) ==
    /\ req[r].pc = "rnt_got"
    /\ LET rq == [req[r] EXCEPT !.h0 = LastIssue(Val(req[r].serial)), !.at = Some(now)]
           g == rq.snap
           serial == Val(rq.serial)
       IN IF /\ Exists(g) /\ Has(g.last_token) /\ Has(g.last_token_time)
             /\ CacheFresh(rev, Val(g.last_token_time), now)
          THEN /\ req' = [req EXCEPT ![r] =
                    Done(rq, TokenResp(rev, Val(g.last_token),
                             TokenTimeLeft(rev, Val(g.last_token_time), now),
                             "cached"))]
               /\ hist' = hist
          ELSE /\ req' = [req EXCEPT ![r] =
                    [rq EXCEPT !.pc = "rnt_setTime",
                               !.generatedTime = Some(now),
                               !.newToken = Some(CreateCustomToken(serial, now))]]
               /\ hist' = Issued(serial, CreateCustomToken(serial, now), now)
    /\ UNCHANGED <<rev, now, ticks, garden, claims, idTok>>

\* await db.ref(`garden/${serial}/last_token_time`).set(generatedTime)
RntSetTime(r) ==
    /\ req[r].pc = "rnt_setTime"
    /\ LET serial == Val(req[r].serial)
       IN garden' = Put(garden, serial,
            [Lookup(garden, serial) EXCEPT !.last_token_time = req[r].generatedTime])
    /\ req' = [req EXCEPT ![r].pc = "rnt_setToken"]
    /\ UNCHANGED <<rev, now, ticks, claims, idTok, hist>>

\* db.ref(`garden/${serial}`).set({last_token: token}): the node replaced
RntSetTokenWholeNode(r) ==
    /\ req[r].pc = "rnt_setToken"
    /\ garden' = Put(garden, Val(req[r].serial),
            [NoRecord EXCEPT !.last_token = req[r].newToken])
    /\ req' = [req EXCEPT ![r].pc = "rnt_respond"]
    /\ UNCHANGED <<rev, now, ticks, claims, idTok, hist>>

\* await db.ref(`garden/${serial}/last_token`).set(token)
RntSetToken(r) ==
    /\ req[r].pc = "rnt_setToken"
    /\ LET serial == Val(req[r].serial)
       IN garden' = Put(garden, serial,
            [Lookup(garden, serial) EXCEPT !.last_token = req[r].newToken])
    /\ req' = [req EXCEPT ![r].pc = "rnt_respond"]
    /\ UNCHANGED <<rev, now, ticks, claims, idTok, hist>>

\* response.send of the new token
RntRespond(r) ==
    /\ req[r].pc = "rnt_respond"
    /\ req' = [req EXCEPT ![r] =
            Done(req[r], TokenResp(rev, Val(req[r].newToken),
                     TokenTimeLeft(rev, Val(req[r].generatedTime), now), "new"))]
    /\ UNCHANGED <<rev, now, ticks, garden, claims, idTok, hist>>

-----------------------------------------------------------------------------
(* signSerialNumber *)

SignSerialNumber(r, par, serial, password) ==
    /\ MayStart(r, par)
    /\ LET rq == [NewReq("signSerialNumber") EXCEPT !.serial = serial,
                                                   !.password = password]
       IN req' = [req EXCEPT ![r] =
            IF Falsy(serial) \/ FalsyText(password)
            THEN Done(rq, Resp(400, "missing_parameter"))
            ELSE IF Val(password) # PASSWORD
            THEN Done(rq, Resp(401, "wrong_password"))
            ELSE Done(rq, KeyResp(getUniqueKey(Val(serial))))]
    /\ UNCHANGED <<rev, now, ticks, garden, claims, idTok, hist>>

-----------------------------------------------------------------------------
(* addGarden *)

\* `claimedGardens ?? []`
ListOf(claimedGardens) == IF Has(claimedGardens) THEN Val(claimedGardens) ELSE <<>>

\* `claimedGardens && claimedGardens.length && claimedGardens.length > 10`
TooManyGardens(claimedGardens) ==
    Has(claimedGardens) /\ Len(Val(claimedGardens)) # 0
        /\ Len(Val(claimedGardens)) > MaxGardens

\* `claimedByRef.exists() && claimedByRef.val() != uid`
IsClaimedBySameAccount(g, uid) == Has(g.claimed_by) /\ Val(g.claimed_by) = uid
IsClaimedByOtherAccount(g, uid) == Has(g.claimed_by) /\ Val(g.claimed_by) # uid

\* the filtered list written back without the serial appended
ClaimsNotAppended(claimedGardens, serial) ==
    IF Has(claimedGardens) THEN FilterEq(Val(claimedGardens), serial) ELSE <<>>

\* the claimedGardens written by addGarden: the entries of the token's list
\* that the filter `g => g === serial` keeps, then the serial
ClaimsAfterAdd(claimedGardens, serial) ==
    (IF Has(claimedGardens) THEN FilterEq(Val(claimedGardens), serial) ELSE <<>>)
        \o <<serial>>

\* the claimedGardens written by removeGarden: the entries of the token's
\* list that the filter `g => g === serial` keeps
ClaimsAfterRemove(claimedGardens, serial) ==
    IF Has(claimedGardens) THEN FilterEq(Val(claimedGardens), serial) ELSE <<>>

\* the parameter check, the trims, verifyIdToken and the limit on the
\* token's claimedGardens
AgStart(r, par, token, serial, nickname) ==
    /\ MayStart(r, par)
    /\ LET rq0 == [NewReq("addGarden") EXCEPT !.token = token, !.serial = serial,
                                              !.nickname = nickname]
       IN req' = [req EXCEPT ![r] =
            IF ~Has(token) \/ Falsy(serial) \/ Falsy(nickname)
            THEN Done(rq0, Resp(400, "missing_parameter"))
            ELSE LET rq == [rq0 EXCEPT !.serial = Some(Trim(Val(serial))),
                                       !.nickname = Some(Trim(Val(nickname)))]
                     idToken == Val(token)
                 IN IF ~Verifies(idToken)
                    THEN Done(rq, Resp(400, "invalid_token"))
                    ELSE IF TooManyGardens(idToken.claimedGardens)
                    THEN Done([rq EXCEPT !.uid = idToken.uid,
                                         !.claimedGardens = idToken.claimedGardens],
                              Resp(403, "too_many_gardens"))
                    ELSE [rq EXCEPT !.uid = idToken.uid,
                                    !.claimedGardens = idToken.claimedGardens,
                                    !.i = 1,
                                    !.pc = IF ListOf(idToken.claimedGardens) = <<>>
                                           THEN "ag_get" ELSE "ag_loop"]]
    /\ UNCHANGED <<rev, now, ticks, garden, claims, idTok, hist>>

\* one turn of the loop over the token's claimedGardens: the nickname of
\* that garden is read and compared with the requested one
AgLoop(r) ==
    /\ req[r].pc = "ag_loop"
    /\ LET rq == req[r]
           list == ListOf(rq.claimedGardens)
           gardenNickname == Lookup(garden, list[rq.i]).nickname
       IN req' = [req EXCEPT ![r] =
            IF gardenNickname = rq.nickname
            THEN Done(rq, Resp(403, "garden_nickname_conflict"))
            ELSE [rq EXCEPT !.i = rq.i + 1,
                            !.pc = IF rq.i + 1 > Len(list) THEN "ag_get" ELSE "ag_loop"]]
    /\ UNCHANGED <<rev, now, ticks, garden, claims, idTok, hist>>

\* the read of garden/<serial>, the offline warning and the ownership check
AgGet(r) ==
    /\ req[r].pc = "ag_get"
    /\ LET rq == req[r]
           g == Lookup(garden, Val(rq.serial))
       IN req' = [req EXCEPT ![r] =
            IF ~Exists(g)
            THEN Done(rq, Resp(404, "invalid_serial"))
            ELSE LET warned == [rq EXCEPT !.snap = g,
                                   !.warn = \/ ~Has(g.last_sync_time)
                                            \/ now - Val(g.last_sync_time) > SyncWindow]
                 IN IF IsClaimedByOtherAccount(g, rq.uid)
                    THEN Done(warned, Resp(403, "garden_already_claimed"))
                    ELSE [warned EXCEPT !.pc = "ag_setClaimed"]]
    /\ UNCHANGED <<rev, now, ticks, garden, claims, idTok, hist>>

\* await db.ref(`garden/${serial}/claimed_by`).set(uid)
AgSetClaimed(r) ==
    /\ req[r].pc = "ag_setClaimed"
    /\ LET serial == Val(req[r].serial)
       IN garden' = Put(garden, serial,
            [Lookup(garden, serial) EXCEPT !.claimed_by = Some(req[r].uid)])
    /\ req' = [req EXCEPT ![r].pc = "ag_setNick"]
    /\ UNCHANGED <<rev, now, ticks, claims, idTok, hist>>

\* await db.ref(`garden/${serial}/nickname`).set(nickname)
AgSetNick(r) ==
    /\ req[r].pc = "ag_setNick"
    /\ LET serial == Val(req[r].serial)
       IN garden' = Put(garden, serial,
            [Lookup(garden, serial) EXCEPT !.nickname = req[r].nickname])
    /\ req' = [req EXCEPT ![r].pc = "ag_setClaims"]
    /\ UNCHANGED <<rev, now, ticks, claims, idTok, hist>>

\* await auth.setCustomUserClaims(uid, ...) and response.send("success")
AgSetClaims(r) ==
    /\ req[r].pc = "ag_setClaims"
    /\ claims' = [claims EXCEPT ![req[r].uid] =
            Some(ClaimsAfterAdd(req[r].claimedGardens, Val(req[r].serial)))]
    /\ req' = [req EXCEPT ![r] = Done(req[r], Resp(200, "success"))]
    /\ UNCHANGED <<rev, now, ticks, garden, idTok, hist>>

\* auth.setCustomUserClaims rejects (the account was deleted after its ID
\* token was minted, or the identity provider cannot be reached): the catch
\* block answers invalid_token
AgSetClaimsRejected(r) ==
    /\ req[r].pc = "ag_setClaims"
    /\ req' = [req EXCEPT ![r] = Done(req[r], Resp(400, "invalid_token"))]
    /\ UNCHANGED <<rev, now, ticks, garden, claims, idTok, hist>>

-----------------------------------------------------------------------------
(* removeGarden *)

\* `!claimedByRef.exists() || claimedByRef.val() != uid`
NotClaimedByYou(g, uid) == ~Has(g.claimed_by) \/ Val(g.claimed_by) # uid

\* the parameter check, the trim and verifyIdToken
RgStart(r, par, token, serial) ==
    /\ MayStart(r, par)
    /\ LET rq0 == [NewReq("removeGarden") EXCEPT !.token = token, !.serial = serial]
       IN req' = [req EXCEPT ![r] =
            IF ~Has(token) \/ Falsy(serial)
            THEN Done(rq0, Resp(400, "missing_parameter"))
            ELSE LET rq == [rq0 EXCEPT !.serial = Some(Trim(Val(serial)))]
                     idToken == Val(token)
                 IN IF ~Verifies(idToken)
                    THEN Done(rq, Resp(400, "invalid_token"))
                    ELSE [rq EXCEPT !.uid = idToken.uid,
                                    !.claimedGardens = idToken.claimedGardens,
                                    !.pc = "rg_get"]]
    /\ UNCHANGED <<rev, now, ticks, garden, claims, idTok, hist>>

\* the read of garden/<serial>
RgGet(r) ==
    /\ req[r].pc = "rg_get"
    /\ LET rq == req[r]
           g == Lookup(garden, Val(rq.serial))
       IN req' = [req EXCEPT ![r] =
            IF ~Exists(g)
            THEN Done(rq, Resp(404, "invalid_serial"))
            ELSE [rq EXCEPT !.snap = g, !.pc = "rg_setClaims"]]
    /\ UNCHANGED <<rev, now, ticks, garden, claims, idTok, hist>>

\* await auth.setCustomUserClaims(uid, ...), then the ownership check on
\* the record read before
RgSetClaims(r) ==
    /\ req[r].pc = "rg_setClaims"
    /\ claims' = [claims EXCEPT ![req[r].uid] =
            Some(ClaimsAfterRemove(req[r].claimedGardens, Val(req[r].serial)))]
    /\ req' = [req EXCEPT ![r] =
            IF NotClaimedByYou(req[r].snap, req[r].uid)
            THEN Done(req[r], Resp(403, "garden_not_claimed"))
            ELSE [req[r] EXCEPT !.pc = "rg_remClaimed"]]
    /\ UNCHANGED <<rev, now, ticks, garden, idTok, hist>>

\* await db.ref(`garden/${serial}/claimed_by`).remove()
RgRemClaimed(r) ==
    /\ req[r].pc = "rg_remClaimed"
    /\ LET serial == Val(req[r].serial)
       IN garden' = Put(garden, serial,
            [Lookup(garden, serial) EXCEPT !.claimed_by = None])
    /\ req' = [req EXCEPT ![r].pc = "rg_remNick"]
    /\ UNCHANGED <<rev, now, ticks, claims, idTok, hist>>

\* await db.ref(`garden/${serial}/nickname`).remove() and response.send("success")
RgRemNick(r) ==
    /\ req[r].pc = "rg_remNick"
    /\ LET serial == Val(req[r].serial)
       IN garden' = Put(garden, serial,
            [Lookup(garden, serial) EXCEPT !.nickname = None])
    /\ req' = [req EXCEPT ![r] = Done(req[r], Resp(200, "success"))]
    /\ UNCHANGED <<rev, now, ticks, claims, idTok, hist>>

-----------------------------------------------------------------------------
(* The account's client *)

\* the client refreshes its ID token: the new token carries the custom
\* claims as they are now (lists longer than maxLen are left out)
RefreshIdToken(a, maxLen) ==
    /\ idTok[a] # claims[a]
    /\ Len(ListOf(claims[a])) <= maxLen
    /\ idTok' = [idTok EXCEPT ![a] = claims[a]]
    /\ UNCHANGED <<rev, now, ticks, garden, claims, req, hist>>

-----------------------------------------------------------------------------
(* The clock *)

Deltas == {1, Threshold45 - 1, Threshold50 - Threshold45}

Tick(d) ==
    /\ ticks < MaxTicks
    /\ now' = now + d
    /\ ticks' = ticks + 1
    /\ UNCHANGED <<rev, garden, claims, idTok, req, hist>>

-----------------------------------------------------------------------------
(* Inputs *)

\* "a1", a serial of 24 characters
SerialA1 == <<97, 49>>
Serial24 == [i \in 1..MaxSerialLen |-> IF i % 2 = 1 THEN 122 ELSE 57]
\* "aB", "a", "a-", a serial of 25 characters
SerialUpper == <<97, 66>>
SerialShort == <<97>>
SerialDash == <<97, 45>>
Serial25 == [i \in 1..(MaxSerialLen + 1) |-> IF i % 2 = 1 THEN 97 ELSE 48]

TokenSerials == {SerialA1, Serial24}
BadSerials == {SerialUpper, SerialShort, SerialDash, Serial25}
Accounts == {"u1", "u2"}

\* the (serial, key) pairs a caller of requestNewToken presents: a missing
\* or empty serial, a missing key, and for every serial its own key, a key
\* made with another signing key and the key of another serial
RntParams ==
    {<<None, Some(getUniqueKey(SerialA1))>>,
     <<Some(<<>>), Some(getUniqueKey(SerialA1))>>}
    \cup {<<Some(s), None>> : s \in TokenSerials}
    \cup {<<Some(s), Some(getUniqueKey(s))>> : s \in TokenSerials \cup BadSerials}
    \cup {<<Some(s), Some(GetUniqueKeyWith(s, "other-key"))>> :
            s \in TokenSerials \cup BadSerials}
    \cup {<<Some(SerialA1), Some(getUniqueKey(Serial24))>>}

SignSerials == {None, Some(<<>>), Some(SerialA1), Some(Serial24)}
PasswordParams == {None, Some(""), Some(PASSWORD), Some("guess")}

\* "b2", " b2 " and a serial no device has
SerialB2 == <<98, 50>>
SerialB2Padded == <<32, 98, 50, 32>>
SerialUnknown == <<122, 122>>
GardenSerials == {SerialA1, SerialB2}

\* "n1", "n2" and "n1 "
Nick1 == <<110, 49>>
Nick2 == <<110, 50>>
Nick1Padded == <<110, 49, 32>>

\* the tokens a caller may present: one that does not verify, or the ID
\* token an account holds
HeldTokens == {Some(InvalidToken)} \cup {Some(IdToken(a, idTok[a])) : a \in Accounts}

\* the ID tokens of accounts that refresh before every call: each carries
\* the account's custom claims as they are now
FreshTokens == {Some(IdToken(a, claims[a])) : a \in Accounts}
TokensUpTo(tokens, maxLen) ==
    {tk \in tokens : Len(ListOf(Val(tk).claimedGardens)) <= maxLen}

\* what a caller of addGarden presents: <<token, serial, nickname>>, with
\* each parameter missing in turn and with padded values
AgParams(tokens) ==
    (tokens \X {Some(SerialA1), Some(SerialB2), Some(SerialUnknown)}
            \X {Some(Nick1), Some(Nick2)})
    \cup {<<tk, Some(SerialB2Padded), Some(Nick1Padded)>> : tk \in tokens}
    \cup {<<None, Some(SerialA1), Some(Nick1)>>}
    \cup {<<tk, None, Some(Nick1)>> : tk \in tokens}
    \cup {<<tk, Some(SerialA1), Some(<<>>)>> : tk \in tokens}

\* what a caller of removeGarden presents: <<token, serial>>
RgParams(tokens) ==
    (tokens \X {Some(SerialA1), Some(SerialB2), Some(SerialUnknown)})
    \cup {<<tk, Some(SerialB2Padded)>> : tk \in tokens}
    \cup {<<None, Some(SerialA1)>>}
    \cup {<<tk, Some(<<>>)>> : tk \in tokens}

-----------------------------------------------------------------------------
(* Specifications *)

InitBase ==
    /\ now = 0
    /\ ticks = 0
    /\ garden = <<>>
    /\ claims = [a \in Accounts |-> None]
    /\ idTok = [a \in Accounts |-> None]
    /\ req = [r \in ConcSlots |-> IdleReq]
    /\ hist = <<>>

\* requestNewToken and signSerialNumber, one request at a time, in either revision
InitToken == InitBase /\ rev \in {"r50", "r45"}

NextTokenSeq ==
    \/ \E r \in SeqSlots, p \in RntParams : RntStart(r, 1, p[1], p[2])
    \/ \E r \in SeqSlots : RntDecide(r)
    \/ \E r \in SeqSlots : RntSetTime(r)
    \/ \E r \in SeqSlots : RntSetToken(r)
    \/ \E r \in SeqSlots : RntRespond(r)
    \/ \E r \in SeqSlots, s \in SignSerials, p \in PasswordParams :
            SignSerialNumber(r, 1, s, p)
    \/ \E d \in Deltas : Tick(d)

SpecTokenSeq == InitToken /\ [][NextTokenSeq]_vars

\* the registry after every device of `serials` has fetched its first token
Provisioned(serials) ==
    /\ rev = "r45"
    /\ now = 0
    /\ ticks = 0
    /\ garden = [s \in serials |->
            [NoRecord EXCEPT !.last_token = Some(CreateCustomToken(s, 0)),
                             !.last_token_time = Some(0)]]
    /\ claims = [a \in Accounts |-> None]
    /\ idTok = [a \in Accounts |-> None]
    /\ req = [r \in ConcSlots |-> IdleReq]
    /\ hist = [s \in serials |-> Some([tok |-> CreateCustomToken(s, 0), at |-> 0])]

\* addGarden and removeGarden, one request at a time, by accounts that
\* refresh their ID tokens when they like
InitGarden == Provisioned(GardenSerials)

NextGardenSeq ==
    \/ \E r \in SeqSlots, p \in AgParams(HeldTokens) : AgStart(r, 1, p[1], p[2], p[3])
    \/ \E r \in SeqSlots : AgLoop(r)
    \/ \E r \in SeqSlots : AgGet(r)
    \/ \E r \in SeqSlots : AgSetClaimed(r)
    \/ \E r \in SeqSlots : AgSetNick(r)
    \/ \E r \in SeqSlots : AgSetClaims(r)
    \/ \E r \in SeqSlots, p \in RgParams(HeldTokens) : RgStart(r, 1, p[1], p[2])
    \/ \E r \in SeqSlots : RgGet(r)
    \/ \E r \in SeqSlots : RgSetClaims(r)
    \/ \E r \in SeqSlots : RgRemClaimed(r)
    \/ \E r \in SeqSlots : RgRemNick(r)
    \/ \E a \in Accounts : RefreshIdToken(a, MaxList)

SpecGardenSeq == InitGarden /\ [][NextGardenSeq]_vars

\* addGarden and removeGarden, one request at a time, every account
\* presenting an ID token that carries its current claimedGardens
NextGardenFresh ==
    \/ \E r \in SeqSlots,
          p \in AgParams({Some(InvalidToken)} \cup TokensUpTo(FreshTokens, MaxList)) :
            AgStart(r, 1, p[1], p[2], p[3])
    \/ \E r \in SeqSlots : AgLoop(r)
    \/ \E r \in SeqSlots : AgGet(r)
    \/ \E r \in SeqSlots : AgSetClaimed(r)
    \/ \E r \in SeqSlots : AgSetNick(r)
    \/ \E r \in SeqSlots : AgSetClaims(r)
    \/ \E r \in SeqSlots, p \in RgParams({Some(InvalidToken)} \cup FreshTokens) :
            RgStart(r, 1, p[1], p[2])
    \/ \E r \in SeqSlots : RgGet(r)
    \/ \E r \in SeqSlots : RgSetClaims(r)
    \/ \E r \in SeqSlots : RgRemClaimed(r)
    \/ \E r \in SeqSlots : RgRemNick(r)

SpecGardenFresh == InitGarden /\ [][NextGardenFresh]_vars

\* one account claiming the same devices again and again under changing
\* nicknames, with a fresh ID token each time
NextReclaim ==
    \/ \E r \in SeqSlots, s \in GardenSerials, n \in {Nick1, Nick2} :
            AgStart(r, 1, Some(IdToken("u1", claims["u1"])), Some(s), Some(n))
    \/ \E r \in SeqSlots : AgLoop(r)
    \/ \E r \in SeqSlots : AgGet(r)
    \/ \E r \in SeqSlots : AgSetClaimed(r)
    \/ \E r \in SeqSlots : AgSetNick(r)
    \/ \E r \in SeqSlots : AgSetClaims(r)

SpecReclaim == InitGarden /\ [][NextReclaim]_vars

\* the requests of NextGardenFresh, and the first account claiming its
\* first device again and again, its list growing past the limit
NextGardenRefusals ==
    \/ NextGardenFresh
    \/ \E r \in SeqSlots, n \in {Nick1, Nick2} :
            AgStart(r, 1, Some(IdToken("u1", claims["u1"])), Some(SerialA1), Some(n))

SpecGardenRefusals == InitGarden /\ [][NextGardenRefusals]_vars

\* the requests of NextGardenFresh with an identity provider that may
\* reject addGarden's setCustomUserClaims
NextGardenFaulty ==
    \/ NextGardenFresh
    \/ \E r \in SeqSlots : AgSetClaimsRejected(r)

SpecGardenFaulty == InitGarden /\ [][NextGardenFaulty]_vars

\* "f0" .. "f9" and "fa": one device more than the limit
FleetSerials == {<<102, c>> : c \in (Char0..Char9) \cup {CharA}}
ClaimedSerials(a) == {s \in DOMAIN garden : garden[s].claimed_by = Some(a)}
\* the unclaimed device with the least serial
NextInFleet(s) ==
    /\ s \in FleetSerials \ ClaimedSerials("u1")
    /\ \A x \in FleetSerials \ ClaimedSerials("u1") : s[2] <= x[2]

\* one account claiming a fleet of devices one after the other, in the
\* order of their serials, with a fresh ID token each time
InitFleet == Provisioned(FleetSerials)

NextFleet ==
    \/ \E r \in SeqSlots, s \in FleetSerials, n \in {Nick1, Nick2} :
            /\ NextInFleet(s)
            /\ AgStart(r, 1, Some(IdToken("u1", claims["u1"])), Some(s), Some(n))
    \/ \E r \in SeqSlots : AgLoop(r)
    \/ \E r \in SeqSlots : AgGet(r)
    \/ \E r \in SeqSlots : AgSetClaimed(r)
    \/ \E r \in SeqSlots : AgSetNick(r)
    \/ \E r \in SeqSlots : AgSetClaims(r)

SpecFleet == InitFleet /\ [][NextFleet]_vars

\* provisioning: the operator's tool asks signSerialNumber for the key of a
\* device (slot 1), the device then presents the answer to requestNewToken
\* (slot 2) under its own serial or under another one; one request at a time
SignSlot == 1
DeviceSlot == 2
ProvisionSerials == {None, Some(SerialA1), Some(Serial24), Some(SerialUpper)}
ProvisionPasswords == {None, Some(PASSWORD), Some("guess")}
SignAnswered == req[SignSlot].pc = "done" /\ req[SignSlot].op = "signSerialNumber"

NextProvision ==
    \/ \E s \in ProvisionSerials, p \in ProvisionPasswords :
            SignSerialNumber(SignSlot, 1, s, p)
    \/ \E s \in {Some(x) : x \in TokenSerials \cup {SerialUpper}} :
            /\ SignAnswered
            /\ RntStart(DeviceSlot, 1, s, req[SignSlot].resp.key)
    \/ RntDecide(DeviceSlot)
    \/ RntSetTime(DeviceSlot)
    \/ RntSetToken(DeviceSlot)
    \/ RntRespond(DeviceSlot)
    \/ \E d \in {1, Threshold45} : Tick(d)

InitProvision == InitBase /\ rev = "r45"

SpecProvision == InitProvision /\ [][NextProvision]_vars

\* the registry after both devices fetched their first token and the first
\* one reported its sensors
InitSynced ==
    /\ rev = "r45"
    /\ now = 0
    /\ ticks = 0
    /\ garden = [s \in GardenSerials |->
            [NoRecord EXCEPT !.last_token = Some(CreateCustomToken(s, 0)),
                             !.last_token_time = Some(0),
                             !.last_sync_time =
                                IF s = SerialA1 THEN Some(0) ELSE None]]
    /\ claims = [a \in Accounts |-> None]
    /\ idTok = [a \in Accounts |-> None]
    /\ req = [r \in ConcSlots |-> IdleReq]
    /\ hist = [s \in GardenSerials |-> Some([tok |-> CreateCustomToken(s, 0), at |-> 0])]

\* the devices asking for tokens while accounts claim and release them,
\* one request at a time
NextDevicesAndAccounts ==
    \/ \E r \in SeqSlots, s \in GardenSerials :
            RntStart(r, 1, Some(s), Some(getUniqueKey(s)))
    \/ \E r \in SeqSlots : RntDecide(r)
    \/ \E r \in SeqSlots : RntSetTime(r)
    \/ \E r \in SeqSlots : RntSetToken(r)
    \/ \E r \in SeqSlots : RntRespond(r)
    \/ \E r \in SeqSlots, tk \in TokensUpTo(FreshTokens, MaxList),
          s \in GardenSerials \cup {SerialUnknown} :
            AgStart(r, 1, tk, Some(s), Some(Nick1))
    \/ \E r \in SeqSlots : AgLoop(r)
    \/ \E r \in SeqSlots : AgGet(r)
    \/ \E r \in SeqSlots : AgSetClaimed(r)
    \/ \E r \in SeqSlots : AgSetNick(r)
    \/ \E r \in SeqSlots : AgSetClaims(r)
    \/ \E r \in SeqSlots, tk \in FreshTokens, s \in GardenSerials :
            RgStart(r, 1, tk, Some(s))
    \/ \E r \in SeqSlots : RgGet(r)
    \/ \E r \in SeqSlots : RgSetClaims(r)
    \/ \E r \in SeqSlots : RgRemClaimed(r)
    \/ \E r \in SeqSlots : RgRemNick(r)
    \/ Tick(Threshold45)

SpecDevicesAndAccounts == InitSynced /\ [][NextDevicesAndAccounts]_vars

\* one device asking for tokens, up to two requests in progress at a time,
\* their reads and writes interleaved, in either revision
NextTokenRace ==
    \/ \E r \in ConcSlots :
            RntStart(r, 2, Some(SerialA1), Some(getUniqueKey(SerialA1)))
    \/ \E r \in ConcSlots : RntDecide(r)
    \/ \E r \in ConcSlots : RntSetTime(r)
    \/ \E r \in ConcSlots : RntSetToken(r)
    \/ \E r \in ConcSlots : RntRespond(r)
    \/ \E d \in Deltas : Tick(d)

SpecTokenRace == InitToken /\ [][NextTokenRace]_vars

\* <<serial, nickname>>: every device under a nickname of its own
NamedGardens == {<<SerialA1, Nick1>>, <<SerialB2, Nick2>>}

\* accounts claiming devices, up to two requests in progress at a time,
\* their reads and writes interleaved; every request comes with an ID token
\* that carries the account's claimedGardens as they are when it starts
NextClaimRace ==
    \/ \E r \in ConcSlots, tk \in TokensUpTo(FreshTokens, MaxList),
          p \in NamedGardens :
            AgStart(r, 2, tk, Some(p[1]), Some(p[2]))
    \/ \E r \in ConcSlots : AgLoop(r)
    \/ \E r \in ConcSlots : AgGet(r)
    \/ \E r \in ConcSlots : AgSetClaimed(r)
    \/ \E r \in ConcSlots : AgSetNick(r)
    \/ \E r \in ConcSlots : AgSetClaims(r)

SpecClaimRace == InitGarden /\ [][NextClaimRace]_vars

\* accounts claiming (slot 1) and releasing (slot 2) one device, a claim
\* and a release in progress at the same time, their reads and writes
\* interleaved
ClaimSlot == 1
ReleaseSlot == 2

NextClaimReleaseRace ==
    \/ \E tk \in TokensUpTo(FreshTokens, MaxList) :
            AgStart(ClaimSlot, 2, tk, Some(SerialA1), Some(Nick1))
    \/ AgLoop(ClaimSlot)
    \/ AgGet(ClaimSlot)
    \/ AgSetClaimed(ClaimSlot)
    \/ AgSetNick(ClaimSlot)
    \/ AgSetClaims(ClaimSlot)
    \/ \E tk \in FreshTokens : RgStart(ReleaseSlot, 2, tk, Some(SerialA1))
    \/ RgGet(ReleaseSlot)
    \/ RgSetClaims(ReleaseSlot)
    \/ RgRemClaimed(ReleaseSlot)
    \/ RgRemNick(ReleaseSlot)

SpecClaimReleaseRace == InitGarden /\ [][NextClaimReleaseRace]_vars


-----------------------------------------------------------------------------
(* Properties of requestNewToken *)

RntDone(r) == req[r].pc = "done" /\ req[r].op = "requestNewToken"

\* the serial the claims call invalid: a character outside 0-9a-z, or a
\* length below 2 or above 24
InvalidSerial(s) ==
    \/ \E i \in 1..Len(s) : s[i] \notin (48..57) \cup (97..122)
    \/ Len(s) < 2
    \/ Len(s) > 24

\* C1: with the correct key, a call made less than the refresh threshold
\* after the last issue of a token T returns T and issues nothing; a call
\* made at or after the threshold returns a newly issued token other than T
\* and sets last_token_time to the time of the call.
C1_CachedUntilThreshold ==
    \A r \in SeqSlots :
        (RntDone(r) /\ req[r].resp.status = 200 /\ Has(req[r].h0)) =>
            LET rq == req[r]
                serial == Val(rq.serial)
                T == Val(rq.h0).tok
                t0 == Val(rq.h0).at
                t == Val(rq.at)
                g == Lookup(garden, serial)
            IN /\ (t - t0 < RefreshThreshold(rev)) =>
                    /\ rq.resp.token = Some(T)
                    /\ LastIssue(serial) = rq.h0
                    /\ garden = rq.pre.garden
               /\ (t - t0 >= RefreshThreshold(rev)) =>
                    /\ Has(rq.resp.token)
                    /\ rq.resp.token # Some(T)
                    /\ LastIssue(serial) = Some([tok |-> Val(rq.resp.token), at |-> t])
                    /\ g.last_token = rq.resp.token
                    /\ g.last_token_time = Some(t)

\* a call served from the cache one second before the threshold
C1_WitnessCached ==
    \E r \in SeqSlots :
        /\ RntDone(r) /\ req[r].resp.status = 200 /\ Has(req[r].h0)
        /\ Val(req[r].at) - Val(req[r].h0).at = RefreshThreshold(rev) - 1
        /\ req[r].resp.token = Some(Val(req[r].h0).tok)

\* a call exactly at the threshold, answered with a new token
C1_WitnessRefreshed ==
    \E r \in SeqSlots :
        /\ RntDone(r) /\ req[r].resp.status = 200 /\ Has(req[r].h0)
        /\ Val(req[r].at) - Val(req[r].h0).at = RefreshThreshold(rev)
        /\ req[r].resp.token # Some(Val(req[r].h0).tok)
        /\ Lookup(garden, Val(req[r].serial)).last_token_time = req[r].at

\* C8: in every state of the registry, also between the steps of a
\* requestNewToken, a record has last_token exactly when it has
\* last_token_time.
C8_TokenFieldsTogether ==
    \A s \in DOMAIN garden :
        Has(garden[s].last_token) <=> Has(garden[s].last_token_time)

\* C9: with serial and key present, an invalid serial is answered
\* invalid_serial (400) whatever the key, no token is issued and the
\* registry is not written.
C9_InvalidSerialRejected ==
    \A r \in SeqSlots :
        (/\ RntDone(r)
         /\ ~Falsy(req[r].serial) /\ Has(req[r].key)
         /\ InvalidSerial(Val(req[r].serial))) =>
            /\ req[r].resp = Resp(400, "invalid_serial")
            /\ garden = req[r].pre.garden
            /\ Val(req[r].serial) \notin DOMAIN garden
            /\ ~Has(LastIssue(Val(req[r].serial)))

\* an invalid serial presented with its own key has been rejected
C9_Witness ==
    \E r \in SeqSlots :
        /\ RntDone(r)
        /\ req[r].serial = Some(Serial25)
        /\ req[r].key = Some(getUniqueKey(Serial25))
        /\ req[r].resp.code = "invalid_serial"

\* C10: a valid serial with a key other than its derived key is answered
\* wrong_key (401), the body being that code alone; no token is issued and
\* the registry is left as it was.
C10_WrongKeyRejected ==
    \A r \in SeqSlots :
        (/\ RntDone(r)
         /\ ~Falsy(req[r].serial) /\ Has(req[r].key)
         /\ ~InvalidSerial(Val(req[r].serial))
         /\ Val(req[r].key) # getUniqueKey(Val(req[r].serial))) =>
            /\ req[r].resp = Resp(401, "wrong_key")
            /\ garden = req[r].pre.garden
            /\ req[r].h0 = None /\ req[r].newToken = None

\* a wrong key is rejected while the record holds a fresh cached token
C10_Witness ==
    \E r \in SeqSlots :
        /\ RntDone(r)
        /\ req[r].key = Some(GetUniqueKeyWith(SerialA1, "other-key"))
        /\ req[r].resp.code = "wrong_key"
        /\ Has(Lookup(garden, SerialA1).last_token)
        /\ now - Val(Lookup(garden, SerialA1).last_token_time) < RefreshThreshold(rev)

-----------------------------------------------------------------------------
(* Properties of addGarden and removeGarden *)

AgDone(r) == req[r].pc = "done" /\ req[r].op = "addGarden"
RgDone(r) == req[r].pc = "done" /\ req[r].op = "removeGarden"

\* the request came with every parameter and a token that verifies
AgValidCall(r) ==
    /\ AgDone(r)
    /\ Has(req[r].token) /\ ~Falsy(req[r].serial) /\ ~Falsy(req[r].nickname)
    /\ Val(req[r].token).valid
RgValidCall(r) ==
    /\ RgDone(r)
    /\ Has(req[r].token) /\ ~Falsy(req[r].serial)
    /\ Val(req[r].token).valid

\* the caller, its token's list, and the record of the device when the
\* request started
Caller(r) == Val(req[r].token).uid
TokenList(r) == ListOf(Val(req[r].token).claimedGardens)
PreRecord(r) == Lookup(req[r].pre.garden, Val(req[r].serial))
NowRecord(r) == Lookup(garden, Val(req[r].serial))

\* the token's list is over the limit / names a garden that has the
\* requested nickname
OverLimit(r) == Len(TokenList(r)) > 10
NicknameTaken(r) ==
    \E i \in 1..Len(TokenList(r)) :
        Lookup(req[r].pre.garden, TokenList(r)[i]).nickname = req[r].nickname

OwnedByOther(r) ==
    Has(PreRecord(r).claimed_by) /\ Val(PreRecord(r).claimed_by) # Caller(r)

SameOwnership(r) ==
    /\ NowRecord(r).claimed_by = PreRecord(r).claimed_by
    /\ NowRecord(r).nickname = PreRecord(r).nickname

\* C2 as stated: claiming an unclaimed existing device with a valid token
\* returns success and sets claimed_by; an addGarden by another account
\* for a device that is claimed returns garden_already_claimed (403) and
\* leaves claimed_by and nickname unchanged.
C2_Original ==
    \A r \in SeqSlots :
        AgValidCall(r) =>
            /\ (Exists(PreRecord(r)) /\ ~Has(PreRecord(r).claimed_by)) =>
                    /\ req[r].resp = Resp(200, "success")
                    /\ NowRecord(r).claimed_by = Some(Caller(r))
            /\ OwnedByOther(r) =>
                    /\ req[r].resp = Resp(403, "garden_already_claimed")
                    /\ SameOwnership(r)

\* C2, amended: the claim of an unclaimed existing device succeeds and sets
\* claimed_by when the token's list has at most 10 entries and none of its
\* gardens has the requested nickname; an addGarden by another account for
\* a claimed device is answered 403, with garden_already_claimed unless
\* too_many_gardens or garden_nickname_conflict comes first, and leaves
\* claimed_by and nickname unchanged.
C2_ClaimThenRejectOthers ==
    \A r \in SeqSlots :
        AgValidCall(r) =>
            /\ (/\ Exists(PreRecord(r)) /\ ~Has(PreRecord(r).claimed_by)
                /\ ~OverLimit(r) /\ ~NicknameTaken(r)) =>
                    /\ req[r].resp = Resp(200, "success")
                    /\ NowRecord(r).claimed_by = Some(Caller(r))
                    /\ NowRecord(r).nickname = req[r].nickname
            /\ OwnedByOther(r) =>
                    /\ req[r].resp =
                         IF OverLimit(r) THEN Resp(403, "too_many_gardens")
                         ELSE IF NicknameTaken(r)
                              THEN Resp(403, "garden_nickname_conflict")
                              ELSE Resp(403, "garden_already_claimed")
                    /\ SameOwnership(r)

\* a second account has been refused a device that the first one claimed
C2_Witness ==
    \E r \in SeqSlots :
        /\ AgValidCall(r)
        /\ Caller(r) = "u2"
        /\ PreRecord(r).claimed_by = Some("u1")
        /\ req[r].resp.code = "garden_already_claimed"
        /\ NowRecord(r).claimed_by = Some("u1")

\* C3: addGarden with a token whose list has 10 entries is answered
\* too_many_gardens (403); with 9 entries and nothing else in the way it
\* succeeds.
C3_TenthIsTheLimit ==
    \A r \in SeqSlots :
        AgValidCall(r) =>
            /\ Len(TokenList(r)) = 10 => req[r].resp = Resp(403, "too_many_gardens")
            /\ (/\ Len(TokenList(r)) = 9
                /\ ~NicknameTaken(r)
                /\ Exists(PreRecord(r)) /\ ~OwnedByOther(r)) =>
                    req[r].resp = Resp(200, "success")

\* C4: no account is claimed_by of more than 10 device records.
C4_AtMostTenClaimed ==
    \A a \in Accounts : Cardinality(ClaimedSerials(a)) <= 10

\* C5: when no request is in progress, no two records claimed by the same
\* account carry the same nickname.
C5_NicknamesUniquePerAccount ==
    (\A r \in ConcSlots : Free(r)) =>
        \A s1, s2 \in DOMAIN garden :
            (/\ s1 # s2
             /\ Has(garden[s1].claimed_by)
             /\ garden[s1].claimed_by = garden[s2].claimed_by) =>
                garden[s1].nickname # garden[s2].nickname

\* the list without the serial, every other entry kept
RECURSIVE Without(_, _)
Without(list, serial) ==
    IF list = <<>> THEN <<>>
    ELSE IF Head(list) = serial
         THEN Without(Tail(list), serial)
         ELSE <<Head(list)>> \o Without(Tail(list), serial)

\* C6: removeGarden of an existing device that the caller does not own is
\* answered garden_not_claimed (403), leaves claimed_by and nickname as
\* they were, and rewrites the caller's list to the token's list without
\* that serial.
C6_ReleaseOfForeignDevice ==
    \A r \in SeqSlots :
        (/\ RgValidCall(r)
         /\ Exists(PreRecord(r))
         /\ PreRecord(r).claimed_by # Some(Caller(r))) =>
            /\ req[r].resp = Resp(403, "garden_not_claimed")
            /\ SameOwnership(r)
            /\ claims[Caller(r)] = Some(Without(TokenList(r), Val(req[r].serial)))

\* C7: after a successful removeGarden the record has neither claimed_by
\* nor nickname and the owner's list does not hold the serial; an
\* addGarden of an unclaimed device by an account whose token passes the
\* limit and the nickname check succeeds.
C7_ReleaseClears ==
    \A r \in SeqSlots :
        /\ (RgValidCall(r) /\ req[r].resp = Resp(200, "success")) =>
                /\ ~Has(NowRecord(r).claimed_by)
                /\ ~Has(NowRecord(r).nickname)
                /\ \A i \in 1..Len(ListOf(claims[Caller(r)])) :
                        ListOf(claims[Caller(r)])[i] # Val(req[r].serial)
        /\ (/\ AgValidCall(r)
            /\ Exists(PreRecord(r)) /\ ~Has(PreRecord(r).claimed_by)
            /\ ~OverLimit(r) /\ ~NicknameTaken(r)) =>
                req[r].resp = Resp(200, "success")

-----------------------------------------------------------------------------
(* Properties of signSerialNumber *)

\* the key the last signSerialNumber answered has been presented to a
\* requestNewToken for the same, valid, serial, and that request is answered
SignedKeyPresented ==
    /\ SignAnswered /\ Has(req[SignSlot].resp.key)
    /\ RntDone(DeviceSlot)
    /\ req[DeviceSlot].serial = req[SignSlot].serial
    /\ req[DeviceSlot].key = req[SignSlot].resp.key
    /\ ~InvalidSerial(Val(req[DeviceSlot].serial))

\* what a signSerialNumber called with a serial answers
SignAnswer ==
    (SignAnswered /\ ~Falsy(req[SignSlot].serial)) =>
        LET rq == req[SignSlot]
        IN /\ rq.password = Some(PASSWORD) =>
                rq.resp.status = 200 /\ Has(rq.resp.key)
           /\ (~FalsyText(rq.password) /\ rq.password # Some(PASSWORD)) =>
                rq.resp = Resp(401, "wrong_password")

\* a step of signSerialNumber
SignStep == req'[SignSlot] # req[SignSlot] /\ req'[SignSlot].op = "signSerialNumber"

\* C11: the key signSerialNumber returns for a valid serial under the
\* correct password is accepted by requestNewToken for that serial (the
\* answer is a token, never wrong_key); called with a serial and a wrong
\* password it answers wrong_password (401) and no key; and no step of
\* signSerialNumber changes the registry or the claims of an account.
C11_SignedKeyAccepted ==
    /\ [](SignedKeyPresented =>
            /\ req[DeviceSlot].resp.status = 200
            /\ Has(req[DeviceSlot].resp.token)
            /\ req[DeviceSlot].resp.code # "wrong_key")
    /\ []SignAnswer
    /\ [][SignStep => (garden' = garden /\ claims' = claims)]_vars

\* the key signed for the 24-character serial has bought a new token, and
\* the registry holds it
C11_Witness ==
    /\ SignedKeyPresented
    /\ req[SignSlot].serial = Some(Serial24)
    /\ req[DeviceSlot].resp.token = Lookup(garden, Serial24).last_token
    /\ Has(req[DeviceSlot].resp.token)

-----------------------------------------------------------------------------
(* Which fields a handler writes *)

\* a step of a requestNewToken / of an addGarden or a removeGarden
RntStep(r) == req'[r] # req[r] /\ req'[r].op = "requestNewToken"
GardenStep(r) ==
    req'[r] # req[r] /\ req'[r].op \in {"addGarden", "removeGarden"}

\* the record of s before and after the step agree on the ownership
\* fields / on the token fields / on last_sync_time
SameOwner(s) ==
    /\ Lookup(garden', s).claimed_by = Lookup(garden, s).claimed_by
    /\ Lookup(garden', s).nickname = Lookup(garden, s).nickname
SameToken(s) ==
    /\ Lookup(garden', s).last_token = Lookup(garden, s).last_token
    /\ Lookup(garden', s).last_token_time = Lookup(garden, s).last_token_time
SameSync(s) ==
    Lookup(garden', s).last_sync_time = Lookup(garden, s).last_sync_time

-----------------------------------------------------------------------------
(* The claimed-serial set of an account *)

\* how many times the list names the serial
Occurrences(list, serial) ==
    Cardinality({i \in 1..Len(list) : list[i] = serial})

\* C13: after an addGarden that answered success, the caller's
\* claimedGardens names the serial exactly once, also when the serial was
\* in the list before the call.
C13_ClaimedExactlyOnce ==
    \A r \in SeqSlots :
        (AgValidCall(r) /\ req[r].resp = Resp(200, "success")) =>
            Occurrences(ListOf(claims[Caller(r)]), Val(req[r].serial)) = 1

-----------------------------------------------------------------------------
(* Concurrent claims *)

\* the list names the serial
Holds(list, serial) == \E i \in 1..Len(list) : list[i] = serial

\* the last addGarden of each slot is over, the two came from different
\* accounts for the same device, and each of them read the device while it
\* was unclaimed
BothReadUnclaimed ==
    /\ AgValidCall(1) /\ AgValidCall(2)
    /\ Caller(1) # Caller(2)
    /\ req[1].serial = req[2].serial
    /\ \A r \in ConcSlots :
            Exists(req[r].snap) /\ ~Has(req[r].snap.claimed_by)

\* C14: two addGarden requests of different accounts for the same
\* unclaimed device can interleave so that both read it unclaimed; whenever
\* they do, both answer success, claimed_by names one of the two accounts
\* and the claimedGardens of both name the serial.
C14_BothClaimsSucceed ==
    BothReadUnclaimed =>
        /\ \A r \in ConcSlots :
                /\ req[r].resp = Resp(200, "success")
                /\ Holds(ListOf(claims[Caller(r)]), Val(req[r].serial))
        /\ NowRecord(1).claimed_by \in {Some(Caller(1)), Some(Caller(2))}

\* both accounts were answered success for the same device, which names
\* the second account as its owner
C14_Witness ==
    /\ BothReadUnclaimed
    /\ req[1].resp = Resp(200, "success") /\ req[2].resp = Resp(200, "success")
    /\ Caller(1) = "u1"
    /\ NowRecord(1).claimed_by = Some("u2")
    /\ Holds(ListOf(claims["u1"]), Val(req[1].serial))
    /\ Holds(ListOf(claims["u2"]), Val(req[1].serial))

-----------------------------------------------------------------------------
(* Who gets which token *)

\* the token was made for the device: subject garden_<serial>, claim iotDevice
TokenOf(token, serial) ==
    token.sub = <<"garden_", serial>> /\ token.iotDevice = TRUE

\* C15: requestNewToken answers with a token only when the key presented
\* is the derived key of the serial; the token it answers with, new or
\* cached, was made for subject garden_<serial> with iotDevice = true; and
\* the last_token of a record is a token made for the serial of that record.
C15_TokenBoundToSerial ==
    /\ \A r \in SeqSlots :
            (RntDone(r) /\ Has(req[r].resp.token)) =>
                /\ req[r].key = Some(getUniqueKey(Val(req[r].serial)))
                /\ TokenOf(Val(req[r].resp.token), Val(req[r].serial))
    /\ \A s \in DOMAIN garden :
            Has(garden[s].last_token) => TokenOf(Val(garden[s].last_token), s)

\* the second device has been served its cached token while the registry
\* holds a token of the first one
C15_Witness ==
    \E r \in SeqSlots :
        /\ RntDone(r) /\ Has(req[r].resp.token)
        /\ req[r].serial = Some(Serial24)
        /\ Has(req[r].h0) /\ req[r].resp.token = Some(Val(req[r].h0).tok)
        /\ Has(Lookup(garden, SerialA1).last_token)
        /\ Lookup(garden, SerialA1).last_token # Lookup(garden, Serial24).last_token

-----------------------------------------------------------------------------
(* Concurrent token requests *)

\* the request was answered with the token it read from the record
ServedFromCache(r) ==
    RntDone(r) /\ Has(req[r].resp.token) /\ ~Has(req[r].newToken)

\* C16: a token answered on the cache path was issued less than the
\* refresh threshold before the clock reading of the request that answers
\* with it, however concurrent requests for the serial interleave.
C16_CachedTokenIsYoung ==
    \A r \in ConcSlots :
        ServedFromCache(r) =>
            Val(req[r].at) - Val(req[r].resp.token).iat < RefreshThreshold(rev)

-----------------------------------------------------------------------------
(* The registry and the claimed-serial sets side by side *)

Quiescent == \A r \in ConcSlots : Free(r)

\* C17: between requests that run one at a time with up-to-date ID tokens,
\* every device whose record names an account in claimed_by is named in
\* the claimedGardens of that account.
C17_OwnedDevicesAreListed ==
    Quiescent =>
        \A a \in Accounts : \A s \in ClaimedSerials(a) :
            Holds(ListOf(claims[a]), s)

\* C18: when no addGarden and no removeGarden is in progress, a record has
\* a nickname exactly when it has claimed_by, however concurrent claims and
\* releases of the device interleaved before.
C18_NicknameIffClaimed ==
    Quiescent =>
        \A s \in DOMAIN garden :
            Has(garden[s].nickname) <=> Has(garden[s].claimed_by)

-----------------------------------------------------------------------------
(* Requests that are refused *)

RefusalCodes ==
    {"missing_parameter", "invalid_token", "too_many_gardens",
     "garden_nickname_conflict", "invalid_serial", "garden_already_claimed"}

\* C19: an addGarden answered with anything but success was answered
\* with one of the six error codes and has left every record and every
\* account's claimedGardens as they were when it started; answered
\* invalid_serial, the serial has no record afterwards either.
C19_RefusedClaimChangesNothing ==
    \A r \in SeqSlots :
        (AgDone(r) /\ req[r].resp # Resp(200, "success")) =>
            /\ req[r].resp.code \in RefusalCodes
            /\ garden = req[r].pre.garden
            /\ claims = req[r].pre.claims
            /\ req[r].resp.code = "invalid_serial" =>
                    Val(req[r].serial) \notin DOMAIN garden

\* the request came with every parameter and a token that does not verify
AgUnverified(r) ==
    /\ AgDone(r)
    /\ Has(req[r].token) /\ ~Falsy(req[r].serial) /\ ~Falsy(req[r].nickname)
    /\ ~Val(req[r].token).valid
RgUnverified(r) ==
    /\ RgDone(r)
    /\ Has(req[r].token) /\ ~Falsy(req[r].serial)
    /\ ~Val(req[r].token).valid

\* C20: an addGarden or a removeGarden whose token does not verify is
\* answered invalid_token (400) and has written no record and no
\* account's claimedGardens.
C20_UnverifiedTokenRefused ==
    \A r \in SeqSlots :
        (AgUnverified(r) \/ RgUnverified(r)) =>
            /\ req[r].resp = Resp(400, "invalid_token")
            /\ garden = req[r].pre.garden
            /\ claims = req[r].pre.claims

\* a removeGarden with a token that does not verify has been refused for a
\* device that an account owns
C20_Witness ==
    \E r \in SeqSlots :
        /\ RgUnverified(r)
        /\ req[r].resp = Resp(400, "invalid_token")
        /\ Has(NowRecord(r).claimed_by)
        /\ Has(claims[Val(NowRecord(r).claimed_by)])

====
